---- MODULE Spec2Model ----
(***************************************************************************)
(* Geometry kernel of hetbuilder's C++ backend                             *)
(* (src/backend/math_functions.cpp): the 2x2 matrix-vector product, the    *)
(* 2D rotation, the integer GCD functions and the 3x3 determinant and      *)
(* inverse.  Every function is pure; each specification below draws the    *)
(* arguments of one function from a bounded set and applies it.            *)
(***************************************************************************)
EXTENDS Integers, Sequences, FiniteSets, TLC

VARIABLES
    pc,           \* position of the caller: "start", then the function called
    ub,           \* what this build does on INT_MIN % -1 (undefined behaviour)
    a, b,         \* get_gcd: the arguments of the current call
    arr, n,       \* find_gcd: the array and its length argument
    result,       \* get_gcd / find_gcd: the value returned
    basis, vec,   \* basis_2x2_dot_2d_vector / rotate_2d_vector: arguments
    theta,        \* rotate_2d_vector: the angle argument, in degrees
    product,      \* basis_2x2_dot_2d_vector: the vector returned
    rotated,      \* rotate_2d_vector: the vector returned
    mat,          \* get_3x3_matrix_determinant / invert_3x3_matrix: argument
    determinant,  \* get_3x3_matrix_determinant: the value returned
    minv          \* invert_3x3_matrix: the matrix returned

vars == <<pc, ub, a, b, arr, n, result, basis, vec, theta, product, rotated,
          mat, determinant, minv>>

gcdVars == <<ub, a, b, arr, n, result>>
vecVars == <<basis, vec, theta, product, rotated>>
matVars == <<mat, determinant, minv>>

Abs(x) == IF x < 0 THEN -x ELSE x

(***************************************************************************)
(* Bounds of the model.                                                    *)
(***************************************************************************)
\* width of int in the model (32 in the build); keeps INT_MIN % -1 in reach
IntBits == 4
\* longest array handed to find_gcd
MaxLen == 3
\* largest |coordinate| of a 2D vector or a 2x2 basis entry
MaxCoord == 2
\* theta ranges over the multiples of 15 degrees in -15*MaxTurn .. 15*MaxTurn
MaxTurn == 30
\* largest |entry| of the first row of a 3x3 matrix
MaxEntry == 1

RECURSIVE Pow2(_)
Pow2(k) == IF k = 0 THEN 1 ELSE 2 * Pow2(k - 1)

INT_MIN == -Pow2(IntBits - 1)
INT_MAX == Pow2(IntBits - 1) - 1
IntRange == INT_MIN..INT_MAX

(***************************************************************************)
(* get_gcd, math_functions.cpp:57-63                                       *)
(***************************************************************************)
\* C++ x % y for y # 0: the quotient truncates toward zero, so the remainder
\* takes the sign of the dividend x.
CRem(x, y) == IF x >= 0 THEN x % Abs(y) ELSE -((-x) % Abs(y))

\* x % y is undefined when the quotient x / y is not representable in int:
\* INT_MIN % -1.  x86 idiv raises SIGFPE; other targets yield 0.
RemOverflows(x, y) == x = INT_MIN /\ y = -1
UBOutcomes == {"sigfpe", "zero"}

Returned(v) == [trap |-> FALSE, val |-> v]
Trapped == [trap |-> TRUE, val |-> 0]

\* a plausible variant: the base case returns |b|
RECURSIVE get_gcd_abs(_, _, _)
get_gcd_abs(x, y, u) ==
    IF x = 0 THEN Returned(Abs(y))
    ELSE IF RemOverflows(y, x)
         THEN IF u = "sigfpe" THEN Trapped ELSE get_gcd_abs(0, x, u)
         ELSE get_gcd_abs(CRem(y, x), x, u)

\* int get_gcd(int a, int b), the whole recursion; u is the build's outcome of
\* the undefined INT_MIN % -1.
RECURSIVE get_gcd(_, _, _)
get_gcd(x, y, u) ==
    IF x = 0 THEN Returned(y)
    ELSE IF RemOverflows(y, x)
         THEN IF u = "sigfpe" THEN Trapped ELSE get_gcd(0, x, u)
         ELSE get_gcd(CRem(y, x), x, u)

IdleGcd == arr = <<>> /\ n = 0 /\ result = 0
IdleVec == basis = <<>> /\ vec = <<>> /\ theta = 0 /\ product = <<>> /\ rotated = <<>>
IdleMat == mat = <<>> /\ determinant = 0 /\ minv = <<>>

\* ---- SpecGcd: one whole call get_gcd(a, b) ----
InitGcd ==
    /\ pc = "start"
    /\ ub \in UBOutcomes
    /\ a \in IntRange
    /\ b \in IntRange
    /\ IdleGcd /\ IdleVec /\ IdleMat

CallGetGcd ==
    /\ pc = "start"
    /\ LET r == get_gcd(a, b, ub) IN
         /\ pc' = IF r.trap THEN "sigfpe" ELSE "done"
         /\ result' = r.val
    /\ UNCHANGED <<ub, a, b, arr, n, vecVars, matVars>>

NextGcd == CallGetGcd
SpecGcd == InitGcd /\ [][NextGcd]_vars

\* ---- SpecGcdRec: get_gcd call by call (a tail recursion: a, b are the
\* arguments of the innermost call) ----
InitGcdRec ==
    /\ pc = "call"
    /\ ub \in UBOutcomes
    /\ a \in IntRange
    /\ b \in IntRange
    /\ IdleGcd /\ IdleVec /\ IdleMat

\* line 60-61: if (a == 0) return b;
GcdBase ==
    /\ pc = "call"
    /\ a = 0
    /\ result' = b
    /\ pc' = "done"
    /\ UNCHANGED <<ub, a, b, arr, n, vecVars, matVars>>

\* line 62: return get_gcd(b % a, a);
GcdRecurse ==
    /\ pc = "call"
    /\ a # 0
    /\ ~RemOverflows(b, a)
    /\ a' = CRem(b, a)
    /\ b' = a
    /\ UNCHANGED <<pc, ub, arr, n, result, vecVars, matVars>>

\* line 62 with b == INT_MIN, a == -1: b % a is undefined behaviour
GcdRemOverflow ==
    /\ pc = "call"
    /\ a # 0
    /\ RemOverflows(b, a)
    /\ \/ ub = "sigfpe" /\ pc' = "sigfpe" /\ UNCHANGED <<a, b>>
       \/ ub = "zero" /\ a' = 0 /\ b' = a /\ UNCHANGED pc
    /\ UNCHANGED <<ub, arr, n, result, vecVars, matVars>>

NextGcdRec == GcdBase \/ GcdRecurse \/ GcdRemOverflow
SpecGcdRec == InitGcdRec /\ [][NextGcdRec]_vars


\* C2: get_gcd is commutative for all integers a and b, a = -b included:
\* get_gcd(a, b) == get_gcd(b, a).
GcdCommutative ==
    pc = "done" => get_gcd(b, a, ub) = Returned(result)

Divides(d, x) == x % d = 0
IsGreatestCommonDivisor(g, xs) ==
    /\ g > 0
    /\ \A x \in xs : Divides(g, x)
    /\ \A d \in 1..(Pow2(IntBits)) : (\A x \in xs : Divides(d, x)) => d <= g

\* C3: for a and b not both zero, negative entries included, get_gcd(a, b) is
\* the greatest positive integer that divides both a and b.
GcdIsGreatestCommonDivisor ==
    (pc = "done" /\ ~(a = 0 /\ b = 0)) => IsGreatestCommonDivisor(result, {a, b})

\* C7: zero is an identity of get_gcd on either side: get_gcd(a, 0) == a and
\* get_gcd(0, b) == b for every integer, and get_gcd(0, 0) == 0.
GcdZeroIdentity ==
    (pc # "start" /\ (a = 0 \/ b = 0)) =>
        /\ pc = "done"
        /\ b = 0 => result = a
        /\ a = 0 => result = b
        /\ (a = 0 /\ b = 0) => result = 0

GcdZeroIdentityWitness ==
    /\ pc = "done"
    /\ a < 0
    /\ b = 0
    /\ result = a

\* C10: the recursion of get_gcd terminates for every pair of integers: every
\* call either returns (a == 0) or recurses with a first argument b % a of
\* strictly smaller absolute value, and b % a never faults.
GcdRecursionTerminates ==
    [][pc = "call" => (pc' = "done" \/ (pc' = "call" /\ Abs(a') < Abs(a)))]_vars

(***************************************************************************)
(* find_gcd, math_functions.cpp:65-79                                      *)
(***************************************************************************)
\* the for loop of lines 69-77 from index i (0-based) with the running result
RECURSIVE find_gcd_loop(_, _, _, _, _)
find_gcd_loop(xs, len, i, res, u) ==
    IF i >= len THEN Returned(res)
    ELSE LET r == get_gcd(xs[i + 1], res, u) IN
         IF r.trap THEN Trapped
         ELSE IF r.val = 1 THEN Returned(1)
         ELSE find_gcd_loop(xs, len, i + 1, r.val, u)

\* int find_gcd(std::vector<int> &arr, int n)
find_gcd(xs, len, u) == find_gcd_loop(xs, len, 1, xs[1], u)

RECURSIVE SeqsUpTo(_, _)
SeqsUpTo(S, k) ==
    IF k = 0 THEN {<<>>}
    ELSE LET shorter == SeqsUpTo(S, k - 1) IN
         shorter \cup {Append(s, x) : s \in shorter, x \in S}

InitFindGcd ==
    /\ pc = "start"
    /\ ub \in UBOutcomes
    /\ arr \in SeqsUpTo(IntRange, MaxLen) \ {<<>>}
    /\ n = Len(arr)
    /\ a = 0 /\ b = 0 /\ result = 0
    /\ IdleVec /\ IdleMat

CallFindGcd ==
    /\ pc = "start"
    /\ LET r == find_gcd(arr, n, ub) IN
         /\ pc' = IF r.trap THEN "sigfpe" ELSE "done"
         /\ result' = r.val
    /\ UNCHANGED <<ub, a, b, arr, n, vecVars, matVars>>

NextFindGcd == CallFindGcd
SpecFindGcd == InitFindGcd /\ [][NextFindGcd]_vars

\* the same loop without the early return of lines 73-76
RECURSIVE FoldGcd(_, _, _, _, _)
FoldGcd(xs, len, i, res, u) ==
    IF i >= len THEN Returned(res)
    ELSE LET r == get_gcd(xs[i + 1], res, u) IN
         IF r.trap THEN Trapped ELSE FoldGcd(xs, len, i + 1, r.val, u)

Elems(xs) == {xs[k] : k \in 1..Len(xs)}

\* C4: with n the length of arr, find_gcd returns the greatest positive integer
\* dividing every element when some element is non-zero, returns 0 only when
\* all elements are zero, and the early return on 1 never changes the value.
FindGcdIsGreatestCommonDivisor ==
    pc = "done" =>
        /\ (\E x \in Elems(arr) : x # 0) => IsGreatestCommonDivisor(result, Elems(arr))
        /\ result = 0 => \A x \in Elems(arr) : x = 0
        /\ FoldGcd(arr, n, 1, arr[1], ub) = Returned(result)


(***************************************************************************)
(* basis_2x2_dot_2d_vector, math_functions.cpp:12-22                       *)
(***************************************************************************)
Coords == (-MaxCoord)..MaxCoord
Vec2 == Coords \X Coords

\* a plausible variant: the basis indexed column-wise (its transpose)
RECURSIVE dot_loop_transposed(_, _, _, _)
dot_loop_transposed(bs, v, i, res) ==
    IF i >= 2 THEN res
    ELSE dot_loop_transposed(bs, v, i + 1,
             Append(res, bs[1][i + 1] * v[1] + bs[2][i + 1] * v[2]))

\* the for loop of lines 17-20 from index i (0-based): result.push_back(...)
RECURSIVE dot_loop(_, _, _, _)
dot_loop(bs, v, i, res) ==
    IF i >= 2 THEN res
    ELSE dot_loop(bs, v, i + 1,
             Append(res, bs[i + 1][1] * v[1] + bs[i + 1][2] * v[2]))

basis_2x2_dot_2d_vector(bs, v) == dot_loop(bs, v, 0, <<>>)

InitDot ==
    /\ pc = "start"
    /\ basis \in Vec2 \X Vec2
    /\ vec \in Vec2
    /\ theta = 0 /\ product = <<>> /\ rotated = <<>>
    /\ ub = "zero" /\ a = 0 /\ b = 0
    /\ IdleGcd /\ IdleMat

CallDot ==
    /\ pc = "start"
    /\ product' = basis_2x2_dot_2d_vector(basis, vec)
    /\ pc' = "done"
    /\ UNCHANGED <<gcdVars, basis, vec, theta, rotated, matVars>>

NextDot == CallDot
SpecDot == InitDot /\ [][NextDot]_vars

\* C9: basis_2x2_dot_2d_vector(basis, vec) returns exactly the two-element
\* vector (basis[0][0]*vec[0] + basis[0][1]*vec[1],
\* basis[1][0]*vec[0] + basis[1][1]*vec[1]) and leaves basis and vec unchanged.
DotIsMatrixVectorProduct ==
    [][(pc = "start" /\ pc' = "done") =>
          /\ product' = <<basis[1][1] * vec[1] + basis[1][2] * vec[2],
                          basis[2][1] * vec[1] + basis[2][2] * vec[2]>>
          /\ basis' = basis
          /\ vec' = vec]_vars

DotWitness ==
    /\ pc = "done"
    /\ basis = <<<<1, 2>>, <<-1, 0>>>>
    /\ vec = <<2, -1>>
    /\ product = <<0, -2>>

(***************************************************************************)
(* rotate_2d_vector, math_functions.cpp:28-38                              *)
(*                                                                         *)
(* theta is a multiple of 15 degrees, so the angle t of line 33 is a       *)
(* multiple of 30 degrees and cos(t), sin(t) lie in {0, +-1/2, +-sqrt(3)/2,*)
(* +-1}.  A real number (p + q*sqrt(3))/2 is the pair <<p, q>>; the        *)
(* arithmetic is exact (the rounding of double is not modelled).           *)
(***************************************************************************)
Thetas == {15 * k : k \in (-MaxTurn)..MaxTurn}

FromInt(x) == <<2 * x, 0>>
Scale(r, k) == <<r[1] * k, r[2] * k>>
Plus(r, s) == <<r[1] + s[1], r[2] + s[2]>>
Neg(r) == <<-r[1], -r[2]>>

\* cos of 0, 30, ..., 330 degrees
CosTable ==
    << <<2, 0>>, <<0, 1>>, <<1, 0>>, <<0, 0>>, <<-1, 0>>, <<0, -1>>,
       <<-2, 0>>, <<0, -1>>, <<-1, 0>>, <<0, 0>>, <<1, 0>>, <<0, 1>> >>
\* std::cos and std::sin of an angle given in degrees, a multiple of 30
Cos(deg) == CosTable[((deg % 360) \div 30) + 1]
Sin(deg) == Cos(deg - 90)

\* a plausible variant: theta * M_PI / 360.0
AngleHalved(th) == th \div 2

\* line 33: double t = theta * 2 * M_PI / 180.0; the angle t, in degrees
Angle(th) == th * 2

\* std::vector<double> rotate_2d_vector(std::vector<T> &vec, const double &theta)
rotate_2d_vector(v, th) ==
    LET t == Angle(th)
        R == << <<Cos(t), Neg(Sin(t))>>, <<Sin(t), Cos(t)>> >>
    IN  << Plus(Scale(R[1][1], v[1]), Scale(R[1][2], v[2])),
           Plus(Scale(R[2][1], v[1]), Scale(R[2][2], v[2])) >>

InitRot ==
    /\ pc = "start"
    /\ vec \in Vec2
    /\ theta \in Thetas
    /\ basis = <<>> /\ product = <<>> /\ rotated = <<>>
    /\ ub = "zero" /\ a = 0 /\ b = 0
    /\ IdleGcd /\ IdleMat

CallRotate ==
    /\ pc = "start"
    /\ rotated' = rotate_2d_vector(vec, theta)
    /\ pc' = "done"
    /\ UNCHANGED <<gcdVars, basis, vec, theta, product, matVars>>

NextRot == CallRotate
SpecRot == InitRot /\ [][NextRot]_vars

\* the rotation of v by th degrees, th a multiple of 30:
\* (x*cos(a) - y*sin(a), x*sin(a) + y*cos(a)) with a = th*pi/180
StandardRotation(v, th) ==
    << Plus(Scale(Cos(th), v[1]), Neg(Scale(Sin(th), v[2]))),
       Plus(Scale(Sin(th), v[1]), Scale(Cos(th), v[2])) >>

\* C1: rotate_2d_vector(vec, theta) is vec rotated by theta degrees with the
\* standard rotation matrix: theta = 90 gives (-y, x), theta = 180 gives
\* (-x, -y) and theta = 270 gives (y, -x).
RotateIsStandardRotation ==
    pc = "done" =>
        /\ theta % 30 = 0 => rotated = StandardRotation(vec, theta)
        /\ theta = 90 => rotated = <<FromInt(-vec[2]), FromInt(vec[1])>>
        /\ theta = 180 => rotated = <<FromInt(-vec[1]), FromInt(-vec[2])>>
        /\ theta = 270 => rotated = <<FromInt(vec[2]), FromInt(-vec[1])>>

\* C8: rotate_2d_vector is the identity at theta = 0 and periodic in 360
\* degrees: rotate_2d_vector(v, 0) == v, rotate_2d_vector(v, 360) equals v and
\* rotate_2d_vector(v, theta + 360) equals rotate_2d_vector(v, theta).
RotateIdentityAndPeriodic ==
    pc = "done" =>
        /\ theta = 0 => rotated = <<FromInt(vec[1]), FromInt(vec[2])>>
        /\ theta = 360 => rotated = <<FromInt(vec[1]), FromInt(vec[2])>>
        /\ rotate_2d_vector(vec, theta + 360) = rotated
        /\ rotate_2d_vector(vec, theta - 360) = rotated

RotateWitness ==
    /\ pc = "done"
    /\ theta = 360
    /\ vec = <<1, -2>>
    /\ rotated = <<FromInt(1), FromInt(-2)>>


(***************************************************************************)
(* 3x3 matrices, math_functions.cpp:81-124                                 *)
(*                                                                         *)
(* A double produced by a division is the exact fraction num/den.          *)
(***************************************************************************)
\* the first row ranges over -MaxEntry..MaxEntry, the other two over -1..1
Entries == (-MaxEntry)..MaxEntry
UnitEntries == {-1, 0, 1}
Row3(S) == S \X S \X S
Mat3 == Row3(Entries) \X Row3(UnitEntries) \X Row3(UnitEntries)

\* the C++ index k (0-based) of a vector, as the index of a tuple
At(k) == k + 1

\* operator/ of an int by a double
Div(num, den) == [num |-> num, den |-> den]

\* std::vector<T> vec1x3_dot_3x3_matrix(std::vector<T> &a, matrix), lines 82-91
vec1x3_dot_3x3_matrix(v, m) ==
    [i \in 1..3 |-> v[1] * m[1][i] + v[2] * m[2][i] + v[3] * m[3][i]]

\* a plausible variant: the second product added instead of subtracted
RECURSIVE det_loop_plus(_, _, _)
det_loop_plus(m, i, det) ==
    IF i >= 3 THEN det
    ELSE det_loop_plus(m, i + 1,
             det + m[1][At(i)] * (m[2][At((i + 1) % 3)] * m[3][At((i + 2) % 3)]
                                  + m[2][At((i + 2) % 3)] * m[3][At((i + 1) % 3)]))

\* the for loop of lines 103-104 from index i (0-based)
RECURSIVE det_loop(_, _, _)
det_loop(m, i, det) ==
    IF i >= 3 THEN det
    ELSE det_loop(m, i + 1,
             det + m[1][At(i)] * (m[2][At((i + 1) % 3)] * m[3][At((i + 2) % 3)]
                                  - m[2][At((i + 2) % 3)] * m[3][At((i + 1) % 3)]))

\* double get_3x3_matrix_determinant(std::vector<std::vector<T>> &mat)
get_3x3_matrix_determinant(m) == det_loop(m, 0, 0)

\* a plausible variant: the cofactor matrix without the transposition
invert_not_transposed(m) ==
    LET det == get_3x3_matrix_determinant(m) IN
    [i \in 1..3 |-> [j \in 1..3 |->
        Div(m[At(i % 3)][At(j % 3)] * m[At((i + 1) % 3)][At((j + 1) % 3)]
            - m[At(i % 3)][At((j + 1) % 3)] * m[At((i + 1) % 3)][At(j % 3)],
            det)]]

\* invert_3x3_matrix(mat), lines 114-124; i, j here are the C++ i + 1, j + 1,
\* so (j + 1) % 3 of the source is At(j % 3)
invert_3x3_matrix(m) ==
    LET det == get_3x3_matrix_determinant(m) IN
    [i \in 1..3 |-> [j \in 1..3 |->
        Div(m[At(j % 3)][At(i % 3)] * m[At((j + 1) % 3)][At((i + 1) % 3)]
            - m[At(j % 3)][At((i + 1) % 3)] * m[At((j + 1) % 3)][At(i % 3)],
            det)]]

InitMat ==
    /\ pc = "start"
    /\ mat \in Mat3
    /\ determinant = 0
    /\ minv = <<>>
    /\ ub = "zero" /\ a = 0 /\ b = 0
    /\ IdleGcd /\ IdleVec

CallDeterminant ==
    /\ pc = "start"
    /\ determinant' = get_3x3_matrix_determinant(mat)
    /\ pc' = "determinant"
    /\ UNCHANGED <<gcdVars, vecVars, mat, minv>>

CallInvert ==
    /\ pc = "start"
    /\ determinant' = get_3x3_matrix_determinant(mat)
    /\ minv' = invert_3x3_matrix(mat)
    /\ pc' = "inverted"
    /\ UNCHANGED <<gcdVars, vecVars, mat>>

NextMat == CallDeterminant \/ CallInvert
SpecMat == InitMat /\ [][NextMat]_vars

SwapRows(m, p, q) ==
    [i \in 1..3 |-> IF i = p THEN m[q] ELSE IF i = q THEN m[p] ELSE m[i]]

\* C6: get_3x3_matrix_determinant(mat) equals the cofactor expansion
\* a(ei - fh) - b(di - fg) + c(dh - eg) of [[a,b,c],[d,e,f],[g,h,i]]; it is 0
\* for a matrix with two equal rows and changes sign when two rows are swapped.
DeterminantIsCofactorExpansion ==
    pc = "determinant" =>
        /\ determinant =
               mat[1][1] * (mat[2][2] * mat[3][3] - mat[2][3] * mat[3][2])
             - mat[1][2] * (mat[2][1] * mat[3][3] - mat[2][3] * mat[3][1])
             + mat[1][3] * (mat[2][1] * mat[3][2] - mat[2][2] * mat[3][1])
        /\ \A p, q \in 1..3 :
             p < q =>
               /\ mat[p] = mat[q] => determinant = 0
               /\ get_3x3_matrix_determinant(SwapRows(mat, p, q)) = -determinant

DeterminantWitness ==
    /\ pc = "determinant"
    /\ mat = <<<<1, -1, 0>>, <<1, 1, 1>>, <<-1, 0, 1>>>>
    /\ determinant = 3

\* the matrix m without row p and column q, and the (p, q) cofactor of m
Others(p) == IF p = 1 THEN <<2, 3>> ELSE IF p = 2 THEN <<1, 3>> ELSE <<1, 2>>
Minor(m, p, q) ==
    LET r == Others(p)
        c == Others(q)
    IN  m[r[1]][c[1]] * m[r[2]][c[2]] - m[r[1]][c[2]] * m[r[2]][c[1]]
Cofactor(m, p, q) == IF (p + q) % 2 = 0 THEN Minor(m, p, q) ELSE -Minor(m, p, q)

Delta(i, j) == IF i = j THEN 1 ELSE 0
TestVectors == Row3(UnitEntries)

\* x1*f1 + x2*f2 + x3*f3 = rhs for integers x1, x2, x3, rhs and fractions f1,
\* f2, f3, with both sides brought to the denominator f1.den*f2.den*f3.den
SumIs(x1, f1, x2, f2, x3, f3, rhs) ==
    x1 * f1.num * f2.den * f3.den + x2 * f2.num * f1.den * f3.den
      + x3 * f3.num * f1.den * f2.den = rhs * f1.den * f2.den * f3.den

\* C5: for mat with non-zero determinant, invert_3x3_matrix(mat) is the
\* adjugate of mat divided by its determinant: det(mat) * minv[i][j] is the
\* (j, i) cofactor of mat, mat * adj(mat) = det(mat) * I, and a vector
\* multiplied by mat and then by the returned inverse is the vector again.
InverseIsAdjugateOverDeterminant ==
    (pc = "inverted" /\ determinant # 0) =>
        /\ \A i, j \in 1..3 :
             /\ minv[i][j].den # 0
             /\ determinant * minv[i][j].num = Cofactor(mat, j, i) * minv[i][j].den
        /\ \A i, j \in 1..3 :
             /\ mat[i][1] * Cofactor(mat, j, 1) + mat[i][2] * Cofactor(mat, j, 2)
                  + mat[i][3] * Cofactor(mat, j, 3) = determinant * Delta(i, j)
             /\ SumIs(mat[i][1], minv[1][j], mat[i][2], minv[2][j],
                      mat[i][3], minv[3][j], Delta(i, j))
        /\ \A v \in TestVectors :
             LET w == vec1x3_dot_3x3_matrix(v, mat) IN
             \A i \in 1..3 :
                SumIs(w[1], minv[1][i], w[2], minv[2][i], w[3], minv[3][i], v[i])

InverseWitness ==
    /\ pc = "inverted"
    /\ mat = <<<<1, -1, 0>>, <<1, 1, 1>>, <<-1, 0, 1>>>>
    /\ determinant = 3
    /\ minv[1][2] = Div(1, 3)

====
